---- MODULE Spec2Model ----
(***************************************************************************)
(* Ticket lifecycle and message routing of the Mod-Mail bot                *)
(* (src/src/index.js).  The store (Ticket, Message, GuildSetting,          *)
(* BlockedUser collections), the live staff-side channels and the position *)
(* of every handler that is suspended at an await are the state; one       *)
(* action is one stretch of a handler between two awaits that touch the    *)
(* store or the channels.                                                  *)
(***************************************************************************)
EXTENDS Naturals, Sequences, FiniteSets, TLC

\* ------------------------------------------------------------------ bounds
\* Number of direct messages handled in one behaviour.
NumDMs == 2

\* Number of staff requests (dashboard requests and button presses) handled
\* in one behaviour.
NumReqs == 2

\* buttons.slice(0, 5): the prompt surfaces the first five candidates.
MaxButtons == 5

\* ------------------------------------------------------------- value sets
Users == {"u1", "u2"}
Guilds == {"g1", "g2"}
None == "none"

\* process.env.GUILD_ID: the process-wide fallback guild.
EnvGuild == "g1"

\* client.guilds.cache: the guilds of the bot that the client has cached.
BotGuilds == {"g1", "g2", "g3"}

\* A guild of the bot that the client cache does not hold.
UncachedGuilds == {"g5"}

\* client.guilds.fetch(): the guilds the bot is a member of.
JoinedGuilds == BotGuilds \cup UncachedGuilds

\* The guilds user u is a member of on the platform.  handleDM compares the
\* configured guilds with the list of client.guilds.fetch(), which is the
\* list above; it makes no member fetch for the author of the message.
MemberGuilds(u) == IF u = "u1" THEN {"g1", "g2"} ELSE {"g2"}

\* The GuildSetting collections a behaviour may start with, in natural order.
\* staff_role_id is optional in the schema: None is a row without it.
Configs ==
  { << [guild_id |-> "g1", staff_role_id |-> None, is_default |-> FALSE] >>,
    << [guild_id |-> "g1", staff_role_id |-> None, is_default |-> FALSE],
       [guild_id |-> "g2", staff_role_id |-> None, is_default |-> TRUE] >> }

\* The staff members who send dashboard requests and press buttons.
Staff == {"s1", "s2", "s3"}

\* The members of guild g who hold the staff role (process.env.STAFF_ROLE_ID)
\* or the Administrator permission there.
StaffMembers(g) == IF g = "g1" THEN {"s1", "s2"} ELSE {"s2", "s3"}

\* The members of guild g with the Administrator permission.
Admins(g) ==
  IF g = "g1" THEN {"s2"} ELSE IF g = "g2" THEN {"s2", "s3"} ELSE {"s3"}

\* process.env.STAFF_ROLE_ID.
EnvStaffRole == "r0"

\* guild.members.fetch(id): whether x is a member of guild g.
IsMember(g, x) ==
  IF x \in Users THEN g \in MemberGuilds(x)
  ELSE IF x = "s1" THEN g \in {"g1", "g3"}
  ELSE IF x = "s2" THEN g \in {"g1", "g2", "g3"}
  ELSE g \in {"g2", "g3"}

\* member.roles.cache of member x of guild g: s1 holds the process-wide staff
\* role in g1 and the role r3 in g3, s2 the process-wide staff role in g3.
RolesOf(g, x) ==
  IF x = "s1" /\ g = "g1" THEN {EnvStaffRole}
  ELSE IF x = "s1" /\ g = "g3" THEN {"r3"}
  ELSE IF x = "s2" /\ g = "g3" THEN {EnvStaffRole}
  ELSE {}

\* Note texts, as sequences of characters.
Texts == { << >>, << " " >>, << "a" >> }

DMs == 1 .. NumDMs

Reqs == 1 .. NumReqs

\* The users are interchangeable: the first direct message is u1's.
Senders(k) == IF k = 1 THEN {"u1"} ELSE Users

VARIABLES
  blocked,    \* BlockedUser collection: the set of blocked user ids
  settings,   \* GuildSetting collection: sequence of [guild_id, is_default]
  tickets,    \* Ticket collection: ticket id -> row (index = _id)
  channels,   \* staff-side channels of the platform: channel id -> channel
  messages,   \* Message collection, in insertion order
  dm,         \* one handleDM task per direct message
  req,        \* one handler task per staff request
  notices     \* closure notices sent to users: [ticket, req]

vars == << blocked, settings, tickets, channels, messages, dm, req, notices >>

staffVars == << req, notices >>

\* ------------------------------------------------------------ store rows
\* A row removed by Ticket.findByIdAndDelete.
DeletedRow ==
  [ exists |-> FALSE, user_id |-> None, guild_id |-> None, channel_id |-> 0,
    status |-> "closed", closed_by |-> None, closed_at |-> 0,
    claimed_by |-> None, claimed_at |-> 0, notes |-> << >>, origin |-> None ]

\* new Ticket({user_id, guild_id, channel_id, status: 'open', created_at}).
\* origin records the call site of createTicket that saved the row.
NewTicketRow(user, guild, chan, origin) ==
  [ exists |-> TRUE, user_id |-> user, guild_id |-> guild, channel_id |-> chan,
    status |-> "open", closed_by |-> None, closed_at |-> 0,
    claimed_by |-> None, claimed_at |-> 0, notes |-> << >>, origin |-> origin ]

TicketIds == DOMAIN tickets

Live(t) == t \in TicketIds /\ tickets[t].exists

IsOpen(t) == Live(t) /\ tickets[t].status = "open"

\* Ticket.findOne({ user_id, status: 'open' }): the matching rows.  findOne
\* returns one of them (natural order is not fixed by the query), or null (0).
OpenOfUser(u) == { t \in TicketIds : IsOpen(t) /\ tickets[t].user_id = u }

\* The rows of user u with status 'closed'.
ClosedOfUser(u) ==
  { t \in TicketIds :
      Live(t) /\ tickets[t].status = "closed" /\ tickets[t].user_id = u }

\* Ticket.findOne({ user_id, status: 'open', guild_id }).
OpenOfUserIn(u, g) == { t \in OpenOfUser(u) : tickets[t].guild_id = g }

FindOne(matches) == IF matches = {} THEN {0} ELSE matches

ChannelLive(c) == c \in DOMAIN channels /\ channels[c].live

\* -------------------------------------------------- destination selection
\* availableGuilds: GuildSetting.find() filtered by the guild ids returned by
\* client.guilds.fetch() (the guilds of the bot).
AvailableGuilds ==
  SelectSeq(settings, LAMBDA s : s.guild_id \in JoinedGuilds)

AvailableIds == { AvailableGuilds[i].guild_id : i \in DOMAIN AvailableGuilds }

\* availableGuilds.find(g => g.guild_id === id): undefined (None) if absent.
FindAvailable(id) == IF id \in AvailableIds THEN id ELSE None

\* ------------------------------------------------------------ handleDM task
IdleDM ==
  [ pc |-> "idle", author |-> None, gcfg |-> None, sel |-> None,
    stopping |-> FALSE, rejected |-> FALSE,
    ticket |-> 0, tchan |-> 0, sent |-> 0,
    had |-> {}, past |-> {}, replies |-> {} ]

\* The task after a reply that ends the handling of the message: the locals
\* of the handler (and its collector) are gone; what it sent stays.
Finish(d, reply) ==
  [ d EXCEPT !.pc = "done", !.replies = @ \cup {reply}, !.gcfg = None,
             !.sel = None, !.stopping = FALSE, !.rejected = FALSE,
             !.tchan = 0, !.past = {} ]

\* handleDM behind the blocklist gate: candidate destinations and sticky
\* routing.  e is the result of Ticket.findOne({ user_id, status: 'open' }).
Routed(d, e) ==
  IF JoinedGuilds = {} THEN Finish(d, "noguilds")
  ELSE IF Len(AvailableGuilds) = 0 THEN Finish(d, "noaccess")
  ELSE IF Len(AvailableGuilds) > 1 THEN
    IF e # 0 THEN
      LET g == FindAvailable(tickets[e].guild_id) IN
      IF g = None THEN Finish(d, "noconfig")
      ELSE [ d EXCEPT !.pc = "lookup", !.gcfg = g ]
    ELSE [ d EXCEPT !.pc = "pending", !.replies = {"prompt"} ]
  ELSE [ d EXCEPT !.pc = "lookup", !.gcfg = AvailableGuilds[1].guild_id ]

\* The message as it arrives: its author, and (for the record) the tickets the
\* author has open at that moment and the closed ones (the latter until the
\* handling ends).
Arrived(u) ==
  [ IdleDM EXCEPT !.author = u, !.had = OpenOfUser(u),
                  !.past = ClosedOfUser(u) ]

\* Started with the BlockedUser lookup left out.
StartedUngated(u, e) == Routed(Arrived(u), e)

\* handleDM up to the first point where it waits for the selection or looks
\* the ticket up: BlockedUser.findOne first, then the routing.
Started(u, e) ==
  IF u \in blocked THEN Finish(Arrived(u), "denied")
  ELSE Routed(Arrived(u), e)

DMStart(k, u) ==
  /\ dm[k].pc = "idle"
  /\ \A j \in DMs : j < k => dm[j].pc # "idle"
  /\ \E e \in FindOne(OpenOfUser(u)) :
       dm' = [ dm EXCEPT ![k] = Started(u, e) ]
  /\ UNCHANGED << blocked, settings, tickets, channels, messages, staffVars >>

\* The buttons of the prompt: availableGuilds, the first five surfaced.
Buttons ==
  { AvailableGuilds[i].guild_id :
      i \in { j \in DOMAIN AvailableGuilds : j <= MaxButtons } }

\* collector.on('collect'): a foreign identity is answered and nothing else
\* happens; the author's choice is stored in selectedGuild and
\* guildConfigForDM, and collector.stop() follows the awaited confirmation.
\* Collected with the early return of the identity check missing.
CollectedNoReturn(d, actor, g) ==
  [ d EXCEPT !.sel = g, !.gcfg = g, !.stopping = TRUE,
             !.rejected = (actor # d.author) ]

Collected(d, actor, g) ==
  IF actor # d.author THEN [ d EXCEPT !.rejected = TRUE ]
  ELSE [ d EXCEPT !.sel = g, !.gcfg = g, !.stopping = TRUE ]

Collect(k, actor, g) ==
  /\ dm[k].pc = "pending"
  /\ g \in Buttons
  /\ dm' = [ dm EXCEPT ![k] = Collected(dm[k], actor, g) ]
  /\ UNCHANGED << blocked, settings, tickets, channels, messages, staffVars >>

\* The collector has ended: the 'end' handlers run and handleDM resumes after
\* its await; without a selection it sends the timeout notice and returns.
\* AfterEnd without the return on a missing selection.
AfterEndFallThrough(d) ==
  [ d EXCEPT !.pc = "lookup", !.stopping = FALSE,
             !.gcfg = IF d.sel = None THEN AvailableGuilds[1].guild_id
                      ELSE d.sel ]

AfterEnd(d) ==
  IF d.sel = None THEN Finish(d, "timeout")
  ELSE [ d EXCEPT !.pc = "lookup", !.stopping = FALSE ]

\* collector.stop() of a collect handler whose confirmation has been sent.
CollectorStop(k) ==
  /\ dm[k].pc = "pending"
  /\ dm[k].stopping
  /\ dm' = [ dm EXCEPT ![k] = AfterEnd(dm[k]) ]
  /\ UNCHANGED << blocked, settings, tickets, channels, messages, staffVars >>

\* The 60 second window of the collector runs out.
Timeout(k) ==
  /\ dm[k].pc = "pending"
  /\ dm' = [ dm EXCEPT ![k] = AfterEnd(dm[k]) ]
  /\ UNCHANGED << blocked, settings, tickets, channels, messages, staffVars >>

\* ------------------------------------------------------------ createTicket
\* GuildSetting.findOne({ is_default: true }), else GuildSetting.findOne().
DefaultConfig ==
  LET defs == SelectSeq(settings, LAMBDA s : s.is_default) IN
  IF Len(defs) > 0 THEN defs[1].guild_id
  ELSE IF Len(settings) > 0 THEN settings[1].guild_id
  ELSE None

\* The guild createTicket creates the channel in: the configured guild when the
\* client has it cached, else process.env.GUILD_ID; None when neither is there.
TicketGuild(cfg) ==
  LET c == IF cfg = None THEN DefaultConfig ELSE cfg IN
  IF c # None /\ c \in BotGuilds THEN c
  ELSE IF EnvGuild \in BotGuilds THEN EnvGuild
  ELSE None

\* How a createTicket call can go: "ok"; "nochannel", guild.channels.create
\* rejects; "nointro", the channel is made and channel.send or the Ticket save
\* rejects; "nolog", the ticket is saved and logChannel.send rejects.  The
\* catch returns null for each of the three.
Outcomes == {"ok", "nochannel", "nointro", "nolog"}

\* createTicket(user, guildConfig): the channel is created with the user's id
\* as topic, then the Ticket row is saved.  The result holds the collections
\* after the call, and the ids of the returned ticket and its channel (0 when
\* the call returns null).
CreateTicket(user, cfg, outcome, origin) ==
  LET guild == TicketGuild(cfg)
      cid == Len(channels) + 1
      tid == Len(tickets) + 1
      made == Append(channels,
                     [ guild |-> guild, topic |-> user, live |-> TRUE ])
      saved == Append(tickets, NewTicketRow(user, guild, cid, origin))
  IN
  IF guild = None \/ outcome = "nochannel"
  THEN [ tix |-> tickets, chans |-> channels, tid |-> 0, cid |-> 0 ]
  ELSE IF outcome = "nointro"
  THEN [ tix |-> tickets, chans |-> made, tid |-> 0, cid |-> 0 ]
  ELSE IF outcome = "nolog"
  THEN [ tix |-> saved, chans |-> made, tid |-> 0, cid |-> 0 ]
  ELSE [ tix |-> saved, chans |-> made, tid |-> tid, cid |-> cid ]

\* -------------------------------------------------- handleDM, after routing
\* DMLookup of a handler that runs one message at a time: it does not get to
\* its lookup while a selection window is open.
DMLookupAfterWindows(k) ==
  /\ dm[k].pc = "lookup"
  /\ \A j \in DMs : dm[j].pc # "pending"
  /\ \E t \in FindOne(OpenOfUserIn(dm[k].author, dm[k].gcfg)) :
       dm' = [ dm EXCEPT ![k] =
                 IF t # 0
                 THEN [ @ EXCEPT !.pc = "fetch", !.ticket = t,
                                 !.tchan = tickets[t].channel_id ]
                 ELSE [ @ EXCEPT !.pc = "create" ] ]
  /\ UNCHANGED << blocked, settings, tickets, channels, messages, staffVars >>

\* Ticket.findOne(ticketQuery) for the resolved destination.
DMLookup(k) ==
  /\ dm[k].pc = "lookup"
  /\ \E t \in FindOne(OpenOfUserIn(dm[k].author, dm[k].gcfg)) :
       dm' = [ dm EXCEPT ![k] =
                 IF t # 0
                 THEN [ @ EXCEPT !.pc = "fetch", !.ticket = t,
                                 !.tchan = tickets[t].channel_id ]
                 ELSE [ @ EXCEPT !.pc = "create" ] ]
  /\ UNCHANGED << blocked, settings, tickets, channels, messages, staffVars >>

\* ticket = await createTicket(message.author, guildConfigForDM), then the
\* failure reply or the acknowledgment with the new ticket id.
DMCreate(k, o) ==
  /\ dm[k].pc = "create"
  /\ LET r == CreateTicket(dm[k].author, dm[k].gcfg, o, "dm") IN
       /\ tickets' = r.tix
       /\ channels' = r.chans
       /\ dm' = [ dm EXCEPT ![k] =
                    IF r.tid = 0 THEN Finish(@, "createfail")
                    ELSE [ @ EXCEPT !.pc = "fetch", !.ticket = r.tid,
                                    !.tchan = r.cid,
                                    !.replies = @ \cup {"created"} ] ]
  /\ UNCHANGED << blocked, settings, messages, staffVars >>

\* A row for the direct message flagged as a staff message.
UserMessageFlaggedStaff(d, k) ==
  [ ticket_id |-> d.ticket, user_id |-> d.author, is_staff |-> TRUE,
    content |-> k ]

\* The Message row of a relayed direct message (is_staff: false).
UserMessage(d, k) ==
  [ ticket_id |-> d.ticket, user_id |-> d.author, is_staff |-> FALSE,
    content |-> k ]

\* The task after an await rejected: the catch of handleDM logs and rethrows,
\* and the catch of the messageCreate listener replies to the user.
Thrown(d) == Finish(d, "crashed")

\* The task after channel.send into channel c, the Message save and the
\* reaction.
Relayed(d, c) == Finish([ d EXCEPT !.sent = c ], "react")

\* Rebound without the save of the document.
ReboundUnsaved(tix, t, cid) == tix

\* ticket.channel_id = newTicket.channel_id; await ticket.save().
Rebound(tix, t, cid) == [ tix EXCEPT ![t].channel_id = cid ]

\* client.channels.fetch(ticket.channel_id) on the ticket document the task
\* holds, then channel.send and the Message save.  When the channel is gone
\* the catch handler calls createTicket(message.author), stores the new
\* channel id in the document and saves it (the save of a row that is no
\* longer there rejects), and the relay goes into the new channel.
DMRelay(k, o) ==
  /\ dm[k].pc = "fetch"
  /\ IF ChannelLive(dm[k].tchan)
     THEN /\ dm' = [ dm EXCEPT ![k] = Relayed(@, dm[k].tchan) ]
          /\ messages' = Append(messages, UserMessage(dm[k], k))
          /\ UNCHANGED << tickets, channels >>
     ELSE LET r == CreateTicket(dm[k].author, None, o, "recreate")
              t == dm[k].ticket
          IN
          /\ channels' = r.chans
          /\ IF r.tid # 0 /\ Live(t)
             THEN /\ tickets' = Rebound(r.tix, t, r.cid)
                  /\ dm' = [ dm EXCEPT ![k] = Relayed(@, r.cid) ]
                  /\ messages' = Append(messages, UserMessage(dm[k], k))
             ELSE /\ tickets' = r.tix
                  /\ dm' = [ dm EXCEPT ![k] =
                               IF r.tid = 0 THEN Finish(@, "error")
                               ELSE Thrown(@) ]
                  /\ UNCHANGED messages
  /\ UNCHANGED << blocked, settings, staffVars >>

\* ---------------------------------------------------------- staff requests
IdleReq ==
  [ kind |-> None, pc |-> "idle", ticket |-> 0, chan |-> 0, actor |-> None,
    text |-> << >>, guild |-> None, is_default |-> FALSE,
    was_default |-> FALSE, delivered |-> FALSE, failed |-> None,
    staff |-> {}, admin |-> {}, shown |-> 0, result |-> None ]

\* The request after its response: the locals of the handler are gone.
Responded(q, result) ==
  [ q EXCEPT !.pc = "done", !.result = result, !.chan = 0, !.text = << >>,
             !.was_default = FALSE ]

\* s1 and s2 are interchangeable where there is one destination, and a
\* refused request changes nothing: the first request is s1's.
Requesters(r) == IF r = 1 THEN {"s1"} ELSE Staff

\* isStaff, the middleware of the ticket routes: the member of the guild of
\* process.env.GUILD_ID holds the staff role or is an administrator there.
IsStaff(s) == EnvGuild \in BotGuilds /\ s \in StaffMembers(EnvGuild)

ReqIdle(r) ==
  /\ req[r].pc = "idle"
  /\ \A j \in Reqs : j < r => req[j].pc # "idle"

\* Closed with the status alone written.
ClosedStatusOnly(tix, t, s) == [ tix EXCEPT ![t].status = "closed" ]

\* ticket.status = 'closed'; closed_at = new Date(); closed_by = <staff>;
\* save().  closed_at counts the writes of the field: a later Date is larger.
Closed(tix, t, s) ==
  [ tix EXCEPT ![t].status = "closed", ![t].closed_at = @ + 1,
               ![t].closed_by = s ]

\* ticket.claimed_by = <staff>; claimed_at = new Date(); save().
Claimed(tix, t, s) ==
  [ tix EXCEPT ![t].claimed_by = s, ![t].claimed_at = @ + 1 ]

\* ticket.notes.push({ user_id, content, timestamp }); save().
Noted(tix, t, s, text) ==
  [ tix EXCEPT ![t].notes = Append(@, [ user_id |-> s, content |-> text ]) ]

\* IsBlank without the trim.
IsBlankUntrimmed(text) == text = << >>

\* !content || content.trim().length === 0.
IsBlank(text) == \A i \in DOMAIN text : text[i] = " "

\* POST /api/ticket/:id/close: isStaff, Ticket.findById, the status check.
DashCloseStart(r, t, s) ==
  /\ ReqIdle(r)
  /\ req' = [ req EXCEPT ![r] =
                LET q == [ IdleReq EXCEPT !.kind = "dclose", !.ticket = t,
                                          !.actor = s ]
                IN
                IF ~IsStaff(s) THEN Responded(q, "403")
                ELSE IF ~Live(t) THEN Responded(q, "404")
                ELSE IF tickets[t].status = "closed" THEN Responded(q, "400")
                ELSE [ q EXCEPT !.pc = "chan",
                                !.chan = tickets[t].channel_id ] ]
  /\ UNCHANGED << blocked, settings, tickets, channels, messages, dm, notices >>

\* POST /api/ticket/:id/delete: isStaff, then Ticket.findById.
DashDeleteStart(r, t, s) ==
  /\ ReqIdle(r)
  /\ req' = [ req EXCEPT ![r] =
                LET q == [ IdleReq EXCEPT !.kind = "ddelete", !.ticket = t,
                                          !.actor = s ]
                IN
                IF ~IsStaff(s) THEN Responded(q, "403")
                ELSE IF ~Live(t) THEN Responded(q, "404")
                ELSE [ q EXCEPT !.pc = "chan",
                                !.chan = tickets[t].channel_id ] ]
  /\ UNCHANGED << blocked, settings, tickets, channels, messages, dm, notices >>

\* client.channels.fetch(ticket.channel_id).catch(() => null) and, when the
\* channel is there, await channel.delete(...): a delete that rejects (ok =
\* FALSE) lands in the catch of the handler, which answers 500.
DashChannel(r, ok) ==
  /\ req[r].pc = "chan"
  /\ IF ChannelLive(req[r].chan)
     THEN IF ok
          THEN /\ channels' = [ channels EXCEPT ![req[r].chan].live = FALSE ]
               /\ req' = [ req EXCEPT ![r].pc =
                             IF req[r].kind = "dclose" THEN "save"
                             ELSE "msgs" ]
          ELSE /\ req' = [ req EXCEPT ![r] = Responded(@, "500") ]
               /\ UNCHANGED channels
     ELSE /\ req' = [ req EXCEPT ![r].pc =
                        IF req[r].kind = "dclose" THEN "save" ELSE "msgs" ]
          /\ UNCHANGED channels
  /\ UNCHANGED << blocked, settings, tickets, messages, dm, notices >>

\* The save of the closed ticket (it throws when the row is gone), then the
\* closure notice to the user and the success response.
DashCloseSave(r) ==
  /\ req[r].pc = "save"
  /\ req[r].kind = "dclose"
  /\ IF Live(req[r].ticket)
     THEN /\ tickets' = Closed(tickets, req[r].ticket, req[r].actor)
          /\ notices' = notices \cup { [ ticket |-> req[r].ticket, req |-> r ] }
          /\ req' = [ req EXCEPT ![r] = Responded(@, "ok") ]
     ELSE /\ req' = [ req EXCEPT ![r] = Responded(@, "500") ]
          /\ UNCHANGED << tickets, notices >>
  /\ UNCHANGED << blocked, settings, channels, messages, dm >>

\* Message.deleteMany({ ticket_id }).
DashDeleteMessages(r) ==
  /\ req[r].pc = "msgs"
  /\ messages' = SelectSeq(messages,
                           LAMBDA m : m.ticket_id # req[r].ticket)
  /\ req' = [ req EXCEPT ![r].pc = "row" ]
  /\ UNCHANGED << blocked, settings, tickets, channels, dm, notices >>

\* Ticket.findByIdAndDelete(id), then the success response.
DashDeleteRow(r) ==
  /\ req[r].pc = "row"
  /\ tickets' = [ tickets EXCEPT ![req[r].ticket] = DeletedRow ]
  /\ req' = [ req EXCEPT ![r] = Responded(@, "ok") ]
  /\ UNCHANGED << blocked, settings, channels, messages, dm, notices >>

\* POST /api/ticket/:id/claim: isStaff, then Ticket.findById.
DashClaimStart(r, t, s) ==
  /\ ReqIdle(r)
  /\ req' = [ req EXCEPT ![r] =
                LET q == [ IdleReq EXCEPT !.kind = "dclaim", !.ticket = t,
                                          !.actor = s ]
                IN
                IF ~IsStaff(s) THEN Responded(q, "403")
                ELSE IF ~Live(t) THEN Responded(q, "404")
                ELSE [ q EXCEPT !.pc = "save" ] ]
  /\ UNCHANGED << blocked, settings, tickets, channels, messages, dm, notices >>

\* The save of the claimed ticket.
DashClaimSave(r) ==
  /\ req[r].pc = "save"
  /\ req[r].kind = "dclaim"
  /\ IF Live(req[r].ticket)
     THEN /\ tickets' = Claimed(tickets, req[r].ticket, req[r].actor)
          /\ req' = [ req EXCEPT ![r] = Responded(@, "ok") ]
     ELSE /\ req' = [ req EXCEPT ![r] = Responded(@, "500") ]
          /\ UNCHANGED tickets
  /\ UNCHANGED << blocked, settings, channels, messages, dm, notices >>

\* POST /api/ticket/:id/note: isStaff, the content check, Ticket.findById.
DashNoteStart(r, t, s, text) ==
  /\ ReqIdle(r)
  /\ req' = [ req EXCEPT ![r] =
                LET q == [ IdleReq EXCEPT !.kind = "dnote", !.ticket = t,
                                          !.actor = s ]
                IN
                IF ~IsStaff(s) THEN Responded(q, "403")
                ELSE IF IsBlank(text) THEN Responded(q, "400")
                ELSE IF ~Live(t) THEN Responded(q, "404")
                ELSE [ q EXCEPT !.pc = "save", !.text = text ] ]
  /\ UNCHANGED << blocked, settings, tickets, channels, messages, dm, notices >>

\* The save of the ticket with the note pushed.
DashNoteSave(r) ==
  /\ req[r].pc = "save"
  /\ req[r].kind = "dnote"
  /\ IF Live(req[r].ticket)
     THEN /\ tickets' = Noted(tickets, req[r].ticket, req[r].actor,
                              req[r].text)
          /\ req' = [ req EXCEPT ![r] = Responded(@, "ok") ]
     ELSE /\ req' = [ req EXCEPT ![r] = Responded(@, "500") ]
          /\ UNCHANGED tickets
  /\ UNCHANGED << blocked, settings, channels, messages, dm, notices >>

\* handleCloseTicket, the Close button pressed in channel c, up to
\* Ticket.findOne({ user_id: channel.topic, status: 'open' }).
ChatCloseStart(r, c, s) ==
  /\ ReqIdle(r)
  /\ ChannelLive(c)
  /\ \E t \in FindOne(OpenOfUser(channels[c].topic)) :
       req' = [ req EXCEPT ![r] =
                  LET q == [ IdleReq EXCEPT !.kind = "cclose", !.ticket = t,
                                            !.actor = s ]
                  IN
                  IF t = 0 THEN Responded(q, "notfound")
                  ELSE [ q EXCEPT !.pc = "save", !.chan = c ] ]
  /\ UNCHANGED << blocked, settings, tickets, channels, messages, dm, notices >>

\* The announcement, the closure notice to the user, then the save of the
\* closed ticket (a save that throws ends the handler), the log mirror
\* (logged: logChannel.send does not reject; its rejection ends the handler
\* too, in the catch of the interactionCreate listener) and the 5 s timer.
ChatCloseSave(r, logged) ==
  /\ req[r].pc = "save"
  /\ req[r].kind = "cclose"
  /\ notices' = notices \cup { [ ticket |-> req[r].ticket, req |-> r ] }
  /\ IF Live(req[r].ticket)
     THEN /\ tickets' = Closed(tickets, req[r].ticket, req[r].actor)
          /\ req' = [ req EXCEPT ![r] =
                        IF logged THEN [ @ EXCEPT !.pc = "timer" ]
                        ELSE Responded(@, "logfail") ]
     ELSE /\ req' = [ req EXCEPT ![r] = Responded(@, "error") ]
          /\ UNCHANGED tickets
  /\ UNCHANGED << blocked, settings, channels, messages, dm >>

\* The timer fires: interaction.channel.delete('Ticket closed'), errors
\* caught.
ChatCloseTimer(r) ==
  /\ req[r].pc = "timer"
  /\ channels' = IF ChannelLive(req[r].chan)
                 THEN [ channels EXCEPT ![req[r].chan].live = FALSE ]
                 ELSE channels
  /\ req' = [ req EXCEPT ![r] = Responded(@, "ok") ]
  /\ UNCHANGED << blocked, settings, tickets, messages, dm, notices >>

\* handleClaimTicket, the Claim button pressed in channel c, up to
\* Ticket.findOne and the claimed_by check.
ChatClaimStart(r, c, s) ==
  /\ ReqIdle(r)
  /\ ChannelLive(c)
  /\ \E t \in FindOne(OpenOfUser(channels[c].topic)) :
       req' = [ req EXCEPT ![r] =
                  LET q == [ IdleReq EXCEPT !.kind = "cclaim", !.ticket = t,
                                            !.actor = s ]
                  IN
                  IF t = 0 THEN Responded(q, "notfound")
                  ELSE IF tickets[t].claimed_by # None
                    THEN Responded(q, "conflict")
                  ELSE [ q EXCEPT !.pc = "save", !.chan = c ] ]
  /\ UNCHANGED << blocked, settings, tickets, channels, messages, dm, notices >>

\* The save of the claimed ticket and the announcement in the channel.
ChatClaimSave(r) ==
  /\ req[r].pc = "save"
  /\ req[r].kind = "cclaim"
  /\ IF Live(req[r].ticket)
     THEN /\ tickets' = Claimed(tickets, req[r].ticket, req[r].actor)
          /\ req' = [ req EXCEPT ![r] = Responded(@, "ok") ]
     ELSE /\ req' = [ req EXCEPT ![r] = Responded(@, "error") ]
          /\ UNCHANGED tickets
  /\ UNCHANGED << blocked, settings, channels, messages, dm, notices >>

\* ------------------------------------------------------- staff messages
\* The tickets of channel c whatever their status.
ChannelTickets(c) ==
  { t \in TicketIds : Live(t) /\ tickets[t].channel_id = c }

\* Ticket.findOne({ channel_id, status: 'open' }).
OpenOfChannel(c) ==
  { t \in TicketIds : IsOpen(t) /\ tickets[t].channel_id = c }

\* How the delivery of a staff message can go: "ok"; "nouser",
\* client.users.fetch fails; "nosend", user.send rejects; "noreact", the
\* message is delivered and message.react rejects.
Deliveries == {"ok", "nouser", "nosend", "noreact"}

\* A row for the staff message flagged as a message of the user.
StaffMessageFlaggedUser(q, r) ==
  [ ticket_id |-> q.ticket, user_id |-> q.actor, is_staff |-> FALSE,
    content |-> r ]

\* The Message row of a relayed staff message (is_staff: true).
StaffMessage(q, r) ==
  [ ticket_id |-> q.ticket, user_id |-> q.actor, is_staff |-> TRUE,
    content |-> r ]

\* handleModMailChannel, a message of member s in channel c, up to
\* Ticket.findOne and the warning when there is no open ticket.
StaffMsgStart(r, c, s) ==
  /\ ReqIdle(r)
  /\ ChannelLive(c)
  /\ \E t \in FindOne(OpenOfChannel(c)) :
       req' = [ req EXCEPT ![r] =
                  LET q == [ IdleReq EXCEPT !.kind = "smsg", !.ticket = t,
                                            !.actor = s ]
                  IN
                  IF t = 0 THEN Responded(q, "noticket")
                  ELSE [ q EXCEPT !.pc = "send", !.chan = c ] ]
  /\ UNCHANGED << blocked, settings, tickets, channels, messages, dm, notices >>

\* client.users.fetch, user.send and message.react: a rejection of one of
\* the last two lands in the catch of the handler, which replies 'Failed to
\* send message to user'.
StaffMsgSend(r, o) ==
  /\ req[r].pc = "send"
  /\ req' = [ req EXCEPT ![r] =
                IF o = "nouser" THEN Responded(@, "nouser")
                ELSE IF o = "nosend" THEN Responded(@, "failed")
                ELSE IF o = "noreact"
                  THEN Responded([ @ EXCEPT !.delivered = TRUE ], "failed")
                ELSE [ @ EXCEPT !.pc = "record", !.delivered = TRUE ] ]
  /\ UNCHANGED << blocked, settings, tickets, channels, messages, dm, notices >>

\* new Message({ ..., is_staff: true }).save().
StaffMsgSave(r) ==
  /\ req[r].pc = "record"
  /\ messages' = Append(messages, StaffMessage(req[r], r))
  /\ req' = [ req EXCEPT ![r] = Responded(@, "ok") ]
  /\ UNCHANGED << blocked, settings, tickets, channels, dm, notices >>

\* ---------------------------------------------------------- server routes
\* The index of the GuildSetting row of guild g, 0 when there is none.
RowOf(g) ==
  IF \E i \in DOMAIN settings : settings[i].guild_id = g
  THEN CHOOSE i \in DOMAIN settings : settings[i].guild_id = g
  ELSE 0

\* isAdmin, the middleware of the server routes: administrator in the guild
\* of process.env.GUILD_ID or in a configured guild the client has cached.
IsAdmin(s) ==
  \/ EnvGuild \in BotGuilds /\ s \in Admins(EnvGuild)
  \/ \E i \in DOMAIN settings :
       settings[i].guild_id \in BotGuilds /\ s \in Admins(settings[i].guild_id)

\* GuildSetting.updateMany({}, { $set: { is_default: false } }).
Cleared(cfgs) == [ i \in DOMAIN cfgs |-> [ cfgs[i] EXCEPT !.is_default = FALSE ] ]

\* POST /api/servers up to the default handling: isAdmin, the guild fetch,
\* the administrator check in the target guild, the validation of the role
\* and category ids (valid).
ServerPostStart(r, s, g, d, valid) ==
  /\ ReqIdle(r)
  /\ req' = [ req EXCEPT ![r] =
                LET q == [ IdleReq EXCEPT !.kind = "spost", !.guild = g,
                                          !.actor = s, !.is_default = d ]
                IN
                IF ~IsAdmin(s) THEN Responded(q, "403")
                ELSE IF g \notin JoinedGuilds THEN Responded(q, "400")
                ELSE IF s \notin Admins(g) THEN Responded(q, "403")
                ELSE IF ~valid THEN Responded(q, "400")
                ELSE [ q EXCEPT !.pc = IF d THEN "clear" ELSE "find" ] ]
  /\ UNCHANGED << blocked, settings, tickets, channels, messages, dm, notices >>

\* PUT /api/servers/:id up to the default handling: isAdmin,
\* GuildSetting.findById, the checks of POST.
ServerPutStart(r, s, g, d, valid) ==
  /\ ReqIdle(r)
  /\ req' = [ req EXCEPT ![r] =
                LET q == [ IdleReq EXCEPT !.kind = "sput", !.guild = g,
                                          !.actor = s, !.is_default = d ]
                IN
                IF ~IsAdmin(s) THEN Responded(q, "403")
                ELSE IF RowOf(g) = 0 THEN Responded(q, "404")
                ELSE IF g \notin JoinedGuilds THEN Responded(q, "400")
                ELSE IF s \notin Admins(g) THEN Responded(q, "403")
                ELSE IF ~valid THEN Responded(q, "400")
                ELSE [ q EXCEPT !.pc = IF d THEN "clear" ELSE "save",
                                !.was_default =
                                  settings[RowOf(g)].is_default ] ]
  /\ UNCHANGED << blocked, settings, tickets, channels, messages, dm, notices >>

\* if (is_default) await GuildSetting.updateMany(...), in both routes.
ServerClear(r) ==
  /\ req[r].pc = "clear"
  /\ settings' = Cleared(settings)
  /\ req' = [ req EXCEPT ![r].pc =
                IF req[r].kind = "spost" THEN "find" ELSE "save" ]
  /\ UNCHANGED << blocked, tickets, channels, messages, dm, notices >>

\* GuildSetting.findOne({ guild_id }) and the 'Server already exists'
\* rejection.
ServerPostFind(r) ==
  /\ req[r].pc = "find"
  /\ req' = [ req EXCEPT ![r] =
                IF RowOf(req[r].guild) # 0 THEN Responded(@, "exists")
                ELSE [ @ EXCEPT !.pc = "save" ] ]
  /\ UNCHANGED << blocked, settings, tickets, channels, messages, dm, notices >>

\* new GuildSetting({...}).save(): the unique index on guild_id rejects a
\* second row of the guild.
ServerPostSave(r) ==
  /\ req[r].pc = "save"
  /\ req[r].kind = "spost"
  /\ IF RowOf(req[r].guild) = 0
     THEN /\ settings' = Append(settings,
                                [ guild_id |-> req[r].guild,
                                  staff_role_id |-> None,
                                  is_default |-> req[r].is_default ])
          /\ req' = [ req EXCEPT ![r] = Responded(@, "ok") ]
     ELSE /\ req' = [ req EXCEPT ![r] = Responded(@, "500") ]
          /\ UNCHANGED settings
  /\ UNCHANGED << blocked, tickets, channels, messages, dm, notices >>

\* serverDoc.is_default = !!is_default; await serverDoc.save(): the save
\* writes the paths whose value differs from the loaded document's.
ServerPutSave(r) ==
  /\ req[r].pc = "save"
  /\ req[r].kind = "sput"
  /\ settings' = IF req[r].is_default # req[r].was_default
                 THEN [ settings EXCEPT ![RowOf(req[r].guild)].is_default =
                                          req[r].is_default ]
                 ELSE settings
  /\ req' = [ req EXCEPT ![r] = Responded(@, "ok") ]
  /\ UNCHANGED << blocked, tickets, channels, messages, dm, notices >>

\* ------------------------------------------------------------- staff gates
\* How the lookups of a gate can go: "ok"; "nomember", guild.members.fetch
\* rejects; "nofind", the GuildSetting query rejects.
Lookups == {"ok", "nomember", "nofind"}

\* The staff_role_id of the GuildSetting row of guild g: None when the row
\* has none or there is no row.
ConfiguredRole(g) ==
  IF RowOf(g) # 0 THEN settings[RowOf(g)].staff_role_id ELSE None

\* The rejection handed on to the caller.
RoleRethrown == "throw"

\* catch (error) { console.error(...); return false; } of isStaffInGuild.
RoleCaught == "false"

\* isStaffInGuild(guildId, userId) with its lookups going as o:
\* guildSetting?.staff_role_id || process.env.STAFF_ROLE_ID is the role asked
\* for, and an administrator passes without it.
StaffInGuild(g, x, o) ==
  IF g \notin BotGuilds THEN "false"
  ELSE IF o = "nomember" \/ ~IsMember(g, x) THEN "false"
  ELSE IF o = "nofind" THEN RoleCaught
  ELSE LET staffRoleId == IF ConfiguredRole(g) # None THEN ConfiguredRole(g)
                          ELSE EnvStaffRole
       IN
       IF staffRoleId \in RolesOf(g, x) \/ x \in Admins(g) THEN "true"
       ELSE "false"

\* isStaffInGuild(guildId, userId) when every lookup succeeds.
IsStaffInGuild(g, x) == StaffInGuild(g, x, "ok") = "true"

\* The check of GET /api/tickets: client.guilds.fetch (400 when it rejects),
\* the member, cfg ? cfg.staff_role_id : null, and userIsAllowed.
TicketsGate(g, x, o) ==
  IF g \notin JoinedGuilds THEN "400"
  ELSE LET member == o # "nomember" /\ IsMember(g, x)
           staffRole == IF o = "nofind" THEN None ELSE ConfiguredRole(g)
       IN
       IF member /\ ( \/ x \in Admins(g)
                      \/ staffRole # None /\ staffRole \in RolesOf(g, x) )
       THEN "200" ELSE "403"

\* The guilds GET /dashboard looks at: the configured ones in the client
\* cache, none when GuildSetting.find rejects.
Classified(o) ==
  IF o = "nofind" THEN {}
  ELSE { settings[i].guild_id : i \in DOMAIN settings } \cap BotGuilds

\* userGuilds.admin of GET /dashboard.
AdminGuilds(x, o) ==
  { g \in Classified(o) :
      o # "nomember" /\ IsMember(g, x) /\ x \in Admins(g) }

\* userGuilds.staff of GET /dashboard: cfg.staff_role_id &&
\* member.roles.cache.has(cfg.staff_role_id), for those who are not
\* administrators.
StaffGuilds(x, o) ==
  { g \in Classified(o) :
      /\ o # "nomember" /\ IsMember(g, x) /\ x \notin Admins(g)
      /\ ConfiguredRole(g) # None
      /\ ConfiguredRole(g) \in RolesOf(g, x) }

\* A call of isStaffInGuild(g, x).
RoleRequest(r, g, x, o) ==
  /\ ReqIdle(r)
  /\ req' = [ req EXCEPT ![r] =
                [ IdleReq EXCEPT !.kind = "role", !.pc = "done", !.guild = g,
                                 !.actor = x, !.failed = o,
                                 !.result = StaffInGuild(g, x, o) ] ]
  /\ UNCHANGED << blocked, settings, tickets, channels, messages, dm, notices >>

\* GET /api/tickets?guild_id=g by x: the check, then the listing.
TicketsRequest(r, g, x, o) ==
  /\ ReqIdle(r)
  /\ req' = [ req EXCEPT ![r] =
                [ IdleReq EXCEPT !.kind = "list", !.pc = "done", !.guild = g,
                                 !.actor = x, !.failed = o,
                                 !.result = TicketsGate(g, x, o) ] ]
  /\ UNCHANGED << blocked, settings, tickets, channels, messages, dm, notices >>

\* GET /dashboard by x: the classification of the configured guilds, then
\* the page.
DashboardRequest(r, x, o) ==
  /\ ReqIdle(r)
  /\ req' = [ req EXCEPT ![r] =
                [ IdleReq EXCEPT !.kind = "dash", !.pc = "done",
                                 !.actor = x, !.failed = o,
                                 !.staff = StaffGuilds(x, o),
                                 !.admin = AdminGuilds(x, o),
                                 !.result = "200" ] ]
  /\ UNCHANGED << blocked, settings, tickets, channels, messages, dm, notices >>

\* The check of GET /ticket/:id with everybody let through.
MayViewAnyone(t, x, o) == "yes"

\* The check of GET /ticket/:id: isStaffInGuild(ticket.guild_id ||
\* process.env.GUILD_ID, user) or the ticket's own user_id; a rejection of
\* the call would end in the catch of the route.
MayView(t, x, o) ==
  LET guildForTicket == IF tickets[t].guild_id # None
                        THEN tickets[t].guild_id ELSE EnvGuild
      isUserStaff == StaffInGuild(guildForTicket, x, o)
  IN
  IF isUserStaff = "throw" THEN "error"
  ELSE IF isUserStaff # "true" /\ tickets[t].user_id # x THEN "no"
  ELSE "yes"

\* GET /ticket/:id by x: Ticket.findById, the check, Message.find and the
\* page with the ticket and its messages.  The reads are one step: the route
\* writes nothing, and guild_id and user_id of a row are never rewritten.
TicketView(r, t, x, o) ==
  /\ ReqIdle(r)
  /\ req' = [ req EXCEPT ![r] =
                LET q == [ IdleReq EXCEPT !.kind = "view", !.ticket = t,
                                          !.actor = x ]
                IN
                IF ~Live(t) THEN Responded(q, "404")
                ELSE IF MayView(t, x, o) = "error" THEN Responded(q, "500")
                ELSE IF MayView(t, x, o) = "no" THEN Responded(q, "403")
                ELSE Responded([ q EXCEPT !.shown = t ], "200") ]
  /\ UNCHANGED << blocked, settings, tickets, channels, messages, dm, notices >>

\* DELETE /api/servers/:id up to the store: isAdmin.
ServerDeleteStart(r, s, g) ==
  /\ ReqIdle(r)
  /\ req' = [ req EXCEPT ![r] =
                LET q == [ IdleReq EXCEPT !.kind = "sdel", !.guild = g,
                                          !.actor = s ]
                IN
                IF ~IsAdmin(s) THEN Responded(q, "403")
                ELSE [ q EXCEPT !.pc = "drop" ] ]
  /\ UNCHANGED << blocked, settings, tickets, channels, messages, dm, notices >>

\* cfgs without its i-th row.
Removed(cfgs, i) == SubSeq(cfgs, 1, i - 1) \o SubSeq(cfgs, i + 1, Len(cfgs))

\* GuildSetting.findByIdAndDelete(id): the row goes and nothing else does.
ServerDeleteRow(r) ==
  /\ req[r].pc = "drop"
  /\ IF RowOf(req[r].guild) # 0
     THEN /\ settings' = Removed(settings, RowOf(req[r].guild))
          /\ req' = [ req EXCEPT ![r] = Responded(@, "ok") ]
     ELSE /\ req' = [ req EXCEPT ![r] = Responded(@, "404") ]
          /\ UNCHANGED settings
  /\ UNCHANGED << blocked, tickets, channels, messages, dm, notices >>

\* ------------------------------------------------------------- environment
\* A staff-side channel is deleted on the platform, outside the program.
DeleteChannel(c) ==
  /\ ChannelLive(c)
  /\ channels' = [ channels EXCEPT ![c].live = FALSE ]
  /\ UNCHANGED << blocked, settings, tickets, messages, dm, staffVars >>

\* A BlockedUser row is inserted by the staff tooling.
BlockUser(u) ==
  /\ u \notin blocked
  /\ blocked' = blocked \cup {u}
  /\ UNCHANGED << settings, tickets, channels, messages, dm, staffVars >>

Init ==
  /\ blocked = {}
  /\ settings \in Configs
  /\ tickets = << >>
  /\ channels = << >>
  /\ messages = << >>
  /\ dm = [ k \in DMs |-> IdleDM ]
  /\ req = [ r \in Reqs |-> IdleReq ]
  /\ notices = {}

\* ---------------------------------------------------------- specifications
DMStep ==
  \/ \E k \in DMs : \E u \in Senders(k) : DMStart(k, u)
  \/ \E k \in DMs, a \in Users, g \in Guilds : Collect(k, a, g)
  \/ \E k \in DMs : CollectorStop(k)
  \/ \E k \in DMs : Timeout(k)
  \/ \E k \in DMs : DMLookup(k)
  \/ \E k \in DMs, o \in Outcomes : DMCreate(k, o)
  \/ \E k \in DMs, o \in Outcomes : DMRelay(k, o)

\* Routing and selection of direct messages, with the blocklist growing.
Next ==
  \/ DMStep
  \/ \E u \in Users : BlockUser(u)

Spec == Init /\ [][Next]_vars

\* Direct messages while staff-side channels disappear on the platform.
NextDrift ==
  \/ DMStep
  \/ \E c \in DOMAIN channels : DeleteChannel(c)

SpecDrift == Init /\ [][NextDrift]_vars

\* The store of a deployment with one configured destination.
InitOneDestination ==
  /\ Init
  /\ Len(settings) = 1

StaffStep ==
  \/ \E r \in Reqs, t \in TicketIds :
       \E s \in Requesters(r) : DashCloseStart(r, t, s)
  \/ \E r \in Reqs, t \in TicketIds :
       \E s \in Requesters(r) : DashDeleteStart(r, t, s)
  \/ \E r \in Reqs, t \in TicketIds :
       \E s \in Requesters(r) : DashClaimStart(r, t, s)
  \/ \E r \in Reqs, t \in TicketIds, x \in Texts :
       \E s \in Requesters(r) : DashNoteStart(r, t, s, x)
  \/ \E r \in Reqs, ok \in BOOLEAN : DashChannel(r, ok)
  \/ \E r \in Reqs : DashCloseSave(r)
  \/ \E r \in Reqs : DashDeleteMessages(r)
  \/ \E r \in Reqs : DashDeleteRow(r)
  \/ \E r \in Reqs : DashClaimSave(r)
  \/ \E r \in Reqs : DashNoteSave(r)
  \/ \E r \in Reqs, c \in DOMAIN channels :
       \E s \in Requesters(r) \cap StaffMembers(channels[c].guild) :
         ChatCloseStart(r, c, s)
  \/ \E r \in Reqs, logged \in BOOLEAN : ChatCloseSave(r, logged)
  \/ \E r \in Reqs : ChatCloseTimer(r)
  \/ \E r \in Reqs, c \in DOMAIN channels :
       \E s \in Requesters(r) \cap StaffMembers(channels[c].guild) :
         ChatClaimStart(r, c, s)
  \/ \E r \in Reqs : ChatClaimSave(r)

\* Direct messages of a single-destination deployment, with the staff
\* working on the tickets from the dashboard and in the ticket channels.
NextStaff ==
  \/ \E k \in DMs : \E u \in Senders(k) : DMStart(k, u)
  \/ \E k \in DMs : DMLookup(k)
  \/ \E k \in DMs, o \in Outcomes : DMCreate(k, o)
  \/ \E k \in DMs, o \in Outcomes : DMRelay(k, o)
  \/ StaffStep

SpecStaff == InitOneDestination /\ [][NextStaff]_vars

\* Direct messages of a single-destination deployment whose ticket channels
\* are deleted on the platform while the messages are handled.
NextResurrect ==
  \/ \E k \in DMs : \E u \in Senders(k) : DMStart(k, u)
  \/ \E k \in DMs : DMLookup(k)
  \/ \E k \in DMs, o \in Outcomes : DMCreate(k, o)
  \/ \E k \in DMs, o \in Outcomes : DMRelay(k, o)
  \/ \E c \in DOMAIN channels : DeleteChannel(c)

SpecResurrect == InitOneDestination /\ [][NextResurrect]_vars

\* The store of a deployment whose one configured destination is not the
\* guild of process.env.GUILD_ID.
InitOtherDestination ==
  /\ blocked = {}
  /\ settings = << [ guild_id |-> "g2", staff_role_id |-> None,
                     is_default |-> TRUE ] >>
  /\ tickets = << >>
  /\ channels = << >>
  /\ messages = << >>
  /\ dm = [ k \in DMs |-> IdleDM ]
  /\ req = [ r \in Reqs |-> IdleReq ]
  /\ notices = {}

\* The ticket routes of the dashboard, requested by any member.
DashStep ==
  \/ \E r \in Reqs, t \in TicketIds, s \in Staff : DashCloseStart(r, t, s)
  \/ \E r \in Reqs, t \in TicketIds, s \in Staff : DashDeleteStart(r, t, s)
  \/ \E r \in Reqs, t \in TicketIds, s \in Staff : DashClaimStart(r, t, s)
  \/ \E r \in Reqs, t \in TicketIds, s \in Staff :
       DashNoteStart(r, t, s, << "a" >>)
  \/ \E r \in Reqs, ok \in BOOLEAN : DashChannel(r, ok)
  \/ \E r \in Reqs : DashCloseSave(r)
  \/ \E r \in Reqs : DashDeleteMessages(r)
  \/ \E r \in Reqs : DashDeleteRow(r)
  \/ \E r \in Reqs : DashClaimSave(r)
  \/ \E r \in Reqs : DashNoteSave(r)

\* Direct messages of that deployment, with the members of both guilds
\* working on the tickets from the dashboard.
NextAuth ==
  \/ \E k \in DMs : \E u \in Senders(k) : DMStart(k, u)
  \/ \E k \in DMs : DMLookup(k)
  \/ \E k \in DMs, o \in Outcomes : DMCreate(k, o)
  \/ \E k \in DMs, o \in Outcomes : DMRelay(k, o)
  \/ DashStep

SpecAuth == InitOtherDestination /\ [][NextAuth]_vars

\* The guild ids a server request can name: the bot is not in g4.
ServerGuilds == Guilds \cup {"g4"}

\* The server routes of the dashboard, requested by any member.
NextServers ==
  \/ \E r \in Reqs, s \in Staff, g \in ServerGuilds, d \in BOOLEAN,
        valid \in BOOLEAN : ServerPostStart(r, s, g, d, valid)
  \/ \E r \in Reqs, s \in Staff, g \in ServerGuilds, d \in BOOLEAN,
        valid \in BOOLEAN : ServerPutStart(r, s, g, d, valid)
  \/ \E r \in Reqs : ServerClear(r)
  \/ \E r \in Reqs : ServerPostFind(r)
  \/ \E r \in Reqs : ServerPostSave(r)
  \/ \E r \in Reqs : ServerPutSave(r)

SpecServers == Init /\ [][NextServers]_vars

\* Direct messages of a single-destination deployment, with the staff
\* answering in the ticket channels and deleting tickets from the dashboard.
NextRelay ==
  \/ \E k \in DMs : \E u \in Senders(k) : DMStart(k, u)
  \/ \E k \in DMs : DMLookup(k)
  \/ \E k \in DMs, o \in Outcomes : DMCreate(k, o)
  \/ \E k \in DMs, o \in Outcomes : DMRelay(k, o)
  \/ \E r \in Reqs, c \in DOMAIN channels :
       \E s \in Requesters(r) \cap StaffMembers(channels[c].guild) :
         StaffMsgStart(r, c, s)
  \/ \E r \in Reqs, o \in Deliveries : StaffMsgSend(r, o)
  \/ \E r \in Reqs : StaffMsgSave(r)
  \/ \E r \in Reqs, t \in TicketIds :
       \E s \in Requesters(r) : DashDeleteStart(r, t, s)
  \/ \E r \in Reqs, ok \in BOOLEAN : DashChannel(r, ok)
  \/ \E r \in Reqs : DashDeleteMessages(r)
  \/ \E r \in Reqs : DashDeleteRow(r)

SpecRelay == InitOneDestination /\ [][NextRelay]_vars

\* The store of a deployment with three configured destinations.
InitThreeDestinations ==
  /\ blocked = {}
  /\ settings = << [ guild_id |-> "g1", staff_role_id |-> None,
                     is_default |-> FALSE ],
                   [ guild_id |-> "g2", staff_role_id |-> None,
                     is_default |-> FALSE ],
                   [ guild_id |-> "g3", staff_role_id |-> "r3",
                     is_default |-> TRUE ] >>
  /\ tickets = << >>
  /\ channels = << >>
  /\ messages = << >>
  /\ dm = [ k \in DMs |-> IdleDM ]
  /\ req = [ r \in Reqs |-> IdleReq ]
  /\ notices = {}

\* Direct messages of that deployment while administrators take
\* destinations out of the configuration.
NextReconfigure ==
  \/ \E k \in DMs : \E u \in Senders(k) : DMStart(k, u)
  \/ \E k \in DMs, a \in Users, g \in BotGuilds : Collect(k, a, g)
  \/ \E k \in DMs : CollectorStop(k)
  \/ \E k \in DMs : Timeout(k)
  \/ \E k \in DMs : DMLookup(k)
  \/ \E k \in DMs, o \in Outcomes : DMCreate(k, o)
  \/ \E k \in DMs, o \in Outcomes : DMRelay(k, o)
  \/ \E r \in Reqs, g \in BotGuilds :
       \E s \in Requesters(r) : ServerDeleteStart(r, s, g)
  \/ \E r \in Reqs : ServerDeleteRow(r)

SpecReconfigure == InitThreeDestinations /\ [][NextReconfigure]_vars

\* The store of a deployment with g1 configured without a staff role and g3
\* with the staff role r3; g2 is not configured.
InitRoles ==
  /\ blocked = {}
  /\ settings = << [ guild_id |-> "g1", staff_role_id |-> None,
                     is_default |-> FALSE ],
                   [ guild_id |-> "g3", staff_role_id |-> "r3",
                     is_default |-> TRUE ] >>
  /\ tickets = << >>
  /\ channels = << >>
  /\ messages = << >>
  /\ dm = [ k \in DMs |-> IdleDM ]
  /\ req = [ r \in Reqs |-> IdleReq ]
  /\ notices = {}

\* The identities that ask: the staff members and u1, a member of g1 and g2
\* without a role there.
Visitors == Staff \cup {"u1"}

\* The staff gates, asked for any guild by any visitor.
NextRoles ==
  \/ \E r \in Reqs, g \in BotGuilds \cup ServerGuilds, x \in Visitors,
        o \in Lookups : RoleRequest(r, g, x, o)
  \/ \E r \in Reqs, g \in BotGuilds \cup ServerGuilds, x \in Visitors,
        o \in Lookups : TicketsRequest(r, g, x, o)
  \/ \E r \in Reqs, x \in Visitors, o \in Lookups : DashboardRequest(r, x, o)

SpecRoles == InitRoles /\ [][NextRoles]_vars

\* The store of a deployment with both destinations configured, after u1 wrote
\* to g1 and u2 to g2: each has an open ticket with one relayed message.
InitTwoTickets ==
  /\ blocked = {}
  /\ settings = << [ guild_id |-> "g1", staff_role_id |-> None,
                     is_default |-> FALSE ],
                   [ guild_id |-> "g2", staff_role_id |-> None,
                     is_default |-> TRUE ] >>
  /\ tickets = << NewTicketRow("u1", "g1", 1, "dm"),
                  NewTicketRow("u2", "g2", 2, "dm") >>
  /\ channels = << [ guild |-> "g1", topic |-> "u1", live |-> TRUE ],
                   [ guild |-> "g2", topic |-> "u2", live |-> TRUE ] >>
  /\ messages = << [ ticket_id |-> 1, user_id |-> "u1", is_staff |-> FALSE,
                     content |-> 1 ],
                   [ ticket_id |-> 2, user_id |-> "u2", is_staff |-> FALSE,
                     content |-> 2 ] >>
  /\ dm = [ k \in DMs |-> IdleDM ]
  /\ req = [ r \in Reqs |-> IdleReq ]
  /\ notices = {}

\* Staff members and users opening ticket pages on the dashboard.
NextView ==
  \E r \in Reqs, t \in TicketIds, x \in Staff \cup Users, o \in Lookups :
    TicketView(r, t, x, o)

SpecView == InitTwoTickets /\ [][NextView]_vars

\* The two tickets of that store with staff members adding notes to them
\* and deleting them from the dashboard.
NextNotes ==
  \/ \E r \in Reqs, t \in TicketIds, x \in Texts :
       \E s \in Requesters(r) : DashNoteStart(r, t, s, x)
  \/ \E r \in Reqs : DashNoteSave(r)
  \/ \E r \in Reqs, t \in TicketIds :
       \E s \in Requesters(r) : DashDeleteStart(r, t, s)
  \/ \E r \in Reqs, ok \in BOOLEAN : DashChannel(r, ok)
  \/ \E r \in Reqs : DashDeleteMessages(r)
  \/ \E r \in Reqs : DashDeleteRow(r)

SpecNotes == InitTwoTickets /\ [][NextNotes]_vars

\* The store of a deployment whose one configured destination is a guild
\* that the client cache does not hold.
InitUncached ==
  /\ blocked = {}
  /\ settings = << [ guild_id |-> "g5", staff_role_id |-> None,
                     is_default |-> TRUE ] >>
  /\ tickets = << >>
  /\ channels = << >>
  /\ messages = << >>
  /\ dm = [ k \in DMs |-> IdleDM ]
  /\ req = [ r \in Reqs |-> IdleReq ]
  /\ notices = {}

\* Direct messages of that deployment.
NextFallback ==
  \/ \E k \in DMs : \E u \in Senders(k) : DMStart(k, u)
  \/ \E k \in DMs : DMLookup(k)
  \/ \E k \in DMs, o \in Outcomes : DMCreate(k, o)
  \/ \E k \in DMs, o \in Outcomes : DMRelay(k, o)

SpecFallback == InitUncached /\ [][NextFallback]_vars

\* The two tickets of that store with staff members pressing Close in their
\* channels while channels disappear on the platform.
NextChatClose ==
  \/ \E r \in Reqs, c \in DOMAIN channels :
       \E s \in Staff \cap StaffMembers(channels[c].guild) :
         ChatCloseStart(r, c, s)
  \/ \E r \in Reqs, logged \in BOOLEAN : ChatCloseSave(r, logged)
  \/ \E r \in Reqs : ChatCloseTimer(r)
  \/ \E c \in DOMAIN channels : DeleteChannel(c)

\* setTimeout: a timer that was set fires.
SpecChatClose ==
  /\ InitTwoTickets
  /\ [][NextChatClose]_vars
  /\ \A r \in Reqs : WF_vars(ChatCloseTimer(r))

\* The two tickets of that store with staff members writing and pressing
\* Close in their channels while channels disappear on the platform.
NextAnswer ==
  \/ \E r \in Reqs, c \in DOMAIN channels :
       \E s \in Staff \cap StaffMembers(channels[c].guild) :
         StaffMsgStart(r, c, s)
  \/ \E r \in Reqs, o \in Deliveries : StaffMsgSend(r, o)
  \/ \E r \in Reqs : StaffMsgSave(r)
  \/ \E r \in Reqs, c \in DOMAIN channels :
       \E s \in Staff \cap StaffMembers(channels[c].guild) :
         ChatCloseStart(r, c, s)
  \/ \E r \in Reqs, logged \in BOOLEAN : ChatCloseSave(r, logged)
  \/ \E r \in Reqs : ChatCloseTimer(r)
  \/ \E c \in DOMAIN channels : DeleteChannel(c)

SpecAnswer == InitTwoTickets /\ [][NextAnswer]_vars

\* Direct messages of a deployment with three destinations and the staff
\* answering in the ticket channels.
NextWindow ==
  \/ DMStep
  \/ \E r \in Reqs, c \in DOMAIN channels :
       \E s \in Requesters(r) \cap StaffMembers(channels[c].guild) :
         StaffMsgStart(r, c, s)
  \/ \E r \in Reqs, o \in Deliveries : StaffMsgSend(r, o)
  \/ \E r \in Reqs : StaffMsgSave(r)

\* The event loop resumes every handler whose await has settled, and the
\* calls to the store and to the platform settle; nothing makes a user press
\* a button, and the 60 seconds of a window may be arbitrarily long for the
\* other handlers.
SpecWindow ==
  /\ InitThreeDestinations
  /\ [][NextWindow]_vars
  /\ \A k \in DMs :
       /\ WF_vars(CollectorStop(k))
       /\ WF_vars(DMLookup(k))
       /\ WF_vars(\E o \in Outcomes : DMCreate(k, o))
       /\ WF_vars(\E o \in Outcomes : DMRelay(k, o))
  /\ \A r \in Reqs :
       /\ WF_vars(\E o \in Deliveries : StaffMsgSend(r, o))
       /\ WF_vars(StaffMsgSave(r))

\* The two tickets of that store with the staff working on them from the
\* dashboard and in the ticket channels.
SpecFields == InitTwoTickets /\ [][StaffStep]_vars

\* ------------------------------------------------------------------ claims
\* A finished handleDM task changes nothing any more.
DoneIsFinal ==
  \A k \in DMs : dm[k].pc = "done" => dm'[k] = dm[k]

\* C1: the store never holds two open tickets for the same (user_id,
\* guild_id) pair, under every interleaving of handleDM tasks.
C1_UniqueOpenTicket ==
  \A t1, t2 \in TicketIds :
    ( /\ t1 # t2
      /\ IsOpen(t1)
      /\ IsOpen(t2)
      /\ tickets[t1].user_id = tickets[t2].user_id )
    => tickets[t1].guild_id # tickets[t2].guild_id

\* The direct message of task k is recorded for ticket t.
RelayedInto(k, t) ==
  \E i \in DOMAIN messages :
    /\ messages[i].ticket_id = t
    /\ messages[i].content = k
    /\ ~messages[i].is_staff

\* C2: sticky routing.  A direct message of a user who has an open ticket
\* when it arrives is relayed into that ticket, without a selection prompt
\* (stated for handlings that ran through without a platform failure, while
\* the ticket is open).
C2_StickyRouting ==
  \A k \in DMs :
    ( /\ dm[k].pc = "done"
      /\ dm[k].replies \cap {"denied", "error", "createfail"} = {} )
    => \A t \in dm[k].had :
         IsOpen(t) => RelayedInto(k, t) /\ "prompt" \notin dm[k].replies

\* The step of task k that fetches the channel of the ticket document it
\* loaded for open ticket t, and finds it gone.
Resurrects(k, t) ==
  /\ dm[k].pc = "fetch"
  /\ dm'[k] # dm[k]
  /\ t = dm[k].ticket
  /\ IsOpen(t)
  /\ ~ChannelLive(dm[k].tchan)

\* What channel resurrection promises: a new live channel that the ticket row
\* now references, the row otherwise as it was, the earlier Message rows as
\* they were, and the message relayed into the new channel and recorded.
Resurrected(k, t) ==
  LET c == Len(channels) + 1 IN
  /\ Len(channels') = c
  /\ channels'[c].live
  /\ tickets'[t] = [ tickets[t] EXCEPT !.channel_id = c ]
  /\ messages' = Append(messages, UserMessage(dm[k], k))
  /\ dm'[k].sent = c
  /\ dm'[k].ticket = t

C4_BlocklistPrecedence ==
  [][ /\ \A k \in DMs :
           ( /\ dm[k].pc = "idle"
             /\ dm'[k].pc # "idle"
             /\ dm'[k].author \in blocked )
           => /\ dm'[k].pc = "done"
              /\ dm'[k].replies = {"denied"}
              /\ dm'[k].ticket = 0
              /\ dm'[k].sent = 0
              /\ UNCHANGED << tickets, channels, messages >>
      /\ DoneIsFinal ]_vars

\* C4 witness: a blocked user who has an open ticket was denied.
C4_Witness ==
  \E k \in DMs :
    /\ dm[k].pc = "done"
    /\ dm[k].replies = {"denied"}
    /\ dm[k].author \in blocked
    /\ dm[k].had # {}

\* C5: once the author's first selection is collected, the destination of
\* the message stays the one chosen then, whatever is collected later.
C5_FirstSelectionWins ==
  [][ \A k \in DMs :
        (dm[k].pc = "pending" /\ dm[k].sel # None)
        => dm'[k].gcfg = dm[k].sel ]_vars

\* C6: a prompt whose window ends without a selection of the author ends the
\* handling with the timeout notice and creates no Ticket row, channel or
\* Message row; nothing that arrives later changes the finished handling.
C6_SelectionTimeout ==
  [][ /\ \A k \in DMs :
           ( /\ dm[k].pc = "pending"
             /\ dm[k].sel = None
             /\ dm'[k].pc # "pending" )
           => /\ dm'[k].pc = "done"
              /\ dm'[k].replies = {"prompt", "timeout"}
              /\ dm'[k].ticket = 0
              /\ dm'[k].sent = 0
              /\ UNCHANGED << tickets, channels, messages >>
      /\ DoneIsFinal ]_vars

\* C6 witness: a handling that ended with the timeout notice.
C6_Witness ==
  \E k \in DMs : dm[k].pc = "done" /\ "timeout" \in dm[k].replies

\* C7: while a selection window of a user is outstanding, no second window
\* is open for the same user.
C7_OneWindowPerUser ==
  \A j, k \in DMs :
    ( /\ j # k
      /\ dm[j].pc = "pending"
      /\ dm[k].pc = "pending" )
    => dm[j].author # dm[k].author

\* C8: a selection event of another identity is rejected and changes nothing
\* else: no destination is chosen and the window stays open.
C8_ForeignSelectionRejected ==
  [][ \A k \in DMs :
        (dm'[k].rejected /\ ~dm[k].rejected)
        => /\ dm[k].pc = "pending"
           /\ dm' = [ dm EXCEPT ![k].rejected = TRUE ]
           /\ UNCHANGED << blocked, settings, tickets, channels, messages, staffVars >>
    ]_vars

\* C8 witness: after a rejected foreign selection the author's own selection
\* was collected and the handling went on with it.
C8_Witness ==
  \E k \in DMs :
    /\ dm[k].rejected
    /\ dm[k].pc = "lookup"
    /\ dm[k].gcfg = dm[k].sel
    /\ dm[k].sel # None

\* C9: closed is terminal.  Once a ticket is closed, no step other than its
\* deletion changes its status, closed_at, closed_by, claimed_by, claimed_at
\* or notes; a dashboard claim or note on it performs no mutation.
C9_ClosedIsTerminal ==
  [][ \A t \in TicketIds :
        (Live(t) /\ tickets[t].status = "closed")
        => \/ tickets'[t] = DeletedRow
           \/ /\ tickets'[t].status = "closed"
              /\ tickets'[t].closed_at = tickets[t].closed_at
              /\ tickets'[t].closed_by = tickets[t].closed_by
              /\ tickets'[t].claimed_by = tickets[t].claimed_by
              /\ tickets'[t].claimed_at = tickets[t].claimed_at
              /\ tickets'[t].notes = tickets[t].notes ]_vars

\* C10: close idempotence.  Under every interleaving of close requests on
\* one ticket, closed_at and closed_by are written at most once and the user
\* is notified of the closure at most once.
C10_CloseIdempotence ==
  \A t \in TicketIds :
    /\ Live(t) => tickets[t].closed_at <= 1
    /\ Cardinality({ n \in notices : n.ticket = t }) <= 1

\* C11: claim conflict.  A claim on a ticket that is already claimed by
\* another staff member is a no-op: the claimed_by of a claimed ticket is
\* never replaced by a different staff member.
C11_ClaimConflict ==
  [][ \A t \in TicketIds :
        (Live(t) /\ tickets[t].claimed_by # None /\ tickets'[t].exists)
        => tickets'[t].claimed_by = tickets[t].claimed_by ]_vars

\* The dashboard requests that mutate a ticket.
DashKinds == {"dclose", "ddelete", "dclaim", "dnote"}

\* C12: per-destination authorization of mutations.  A dashboard close,
\* delete, claim or note on a ticket takes effect only when the requesting
\* user is staff or admin in the ticket's own destination.
C12_PerDestinationAuthorization ==
  [][ \A r \in Reqs :
        ( /\ req[r].kind \in DashKinds
          /\ req[r].pc # "done"
          /\ req'[r].pc = "done"
          /\ req'[r].result = "ok"
          /\ Live(req[r].ticket) )
        => IsStaffInGuild(tickets[req[r].ticket].guild_id, req[r].actor)
    ]_vars

\* C13: close with failing channel deletion.  A dashboard close that found
\* its ticket open ends with the ticket closed, also when the deletion of the
\* staff-side channel fails (unless the ticket row was deleted meanwhile).
C13_CloseDespiteFailedDeletion ==
  [][ \A r \in Reqs :
        ( /\ req'[r].kind = "dclose"
          /\ req[r].pc # "done"
          /\ req'[r].pc = "done"
          /\ req'[r].result \notin {"403", "404", "400"}
          /\ tickets'[req'[r].ticket].exists )
        => tickets'[req'[r].ticket].status = "closed" ]_vars

\* C14: createTicket failure leaves nothing persisted.  Whenever handleDM
\* sends the 'failed to create your ticket' reply, the createTicket call it
\* answers for has persisted no Ticket row.
C14_CreateFailurePersistsNothing ==
  [][ \A k \in DMs :
        (dm[k].pc = "create" /\ "createfail" \in dm'[k].replies)
        => tickets' = tickets ]_vars

\* C15: default-destination uniqueness.  After any interleaving of server
\* create and update requests at most one GuildSetting row has is_default.
C15_OneDefault ==
  Cardinality({ i \in DOMAIN settings : settings[i].is_default }) <= 1

\* C16: rejected registration mutates nothing.  No step of a POST
\* /api/servers request for a guild_id that already has a GuildSetting row
\* changes a GuildSetting row.
C16_RejectedRegistrationMutatesNothing ==
  [][ \A r \in Reqs :
        ( /\ req[r].kind = "spost"
          /\ req'[r] # req[r]
          /\ RowOf(req[r].guild) # 0 )
        => settings' = settings ]_vars

\* C17: every successful relay is recorded.  When a handler has finished,
\* a direct message it sent into a ticket channel has its Message row with
\* is_staff = false, and a staff message it delivered to the user has its
\* Message row with is_staff = true.
C17_EveryRelayRecorded ==
  /\ \A k \in DMs :
       (dm[k].pc = "done" /\ dm[k].sent # 0 /\ Live(dm[k].ticket))
       => RelayedInto(k, dm[k].ticket)
  /\ \A r \in Reqs :
       ( /\ req[r].kind = "smsg"
         /\ req[r].pc = "done"
         /\ req[r].delivered
         /\ Live(req[r].ticket) )
       => \E i \in DOMAIN messages : messages[i] = StaffMessage(req[r], r)

\* C18: message ownership.  In every reachable state the ticket_id of each
\* Message row refers to a Ticket row that exists, also when a relay for a
\* ticket is handled concurrently with its deletion.
C18_MessageOwnership ==
  \A i \in DOMAIN messages : Live(messages[i].ticket_id)

Answers(r, t) ==
  /\ req[r].kind = "smsg"
  /\ req[r].pc = "send"
  /\ req'[r] # req[r]
  /\ t = req[r].ticket

C21_FreshTicketAfterClosure ==
  [][\A k \in DMs :
       /\ ( /\ dm[k].pc = "lookup"
            /\ dm'[k].pc # "lookup"
            /\ \E t \in dm[k].past : tickets[t].guild_id = dm[k].gcfg )
          => dm'[k].pc = "create"
       /\ ( /\ dm[k].pc = "create"
            /\ dm'[k].pc = "fetch" )
          => /\ dm'[k].ticket = Len(tickets) + 1
             /\ Len(tickets') = Len(tickets) + 1
             /\ tickets'[dm'[k].ticket].status = "open"
             /\ \A t \in TicketIds : tickets'[t] = tickets[t]
             /\ messages' = messages
  ]_vars

\* C22: a destination is offered to, selected for, or given a ticket of a
\* user only if it is configured, the bot is in it and the user is a member
\* of it.
C22_CandidatesRequireMembership ==
  /\ \A k \in DMs :
       /\ dm[k].pc = "pending"
          => \A g \in Buttons :
               /\ g \in AvailableIds
               /\ g \in BotGuilds
               /\ g \in MemberGuilds(dm[k].author)
       /\ dm[k].gcfg # None
          => /\ dm[k].gcfg \in AvailableIds
             /\ dm[k].gcfg \in BotGuilds
             /\ dm[k].gcfg \in MemberGuilds(dm[k].author)
  /\ \A t \in TicketIds :
       Live(t) => tickets[t].guild_id \in MemberGuilds(tickets[t].user_id)

\* C23: a direct message of a user who is not blocked, with more than one
\* candidate destination and no open ticket of the user in a candidate
\* destination, is answered with the selection prompt and not with the
\* configuration error.
C23_PromptWithoutStickyTicket ==
  [][\A k \in DMs :
       ( /\ dm[k].pc = "idle"
         /\ dm'[k].pc # "idle"
         /\ dm'[k].author \notin blocked
         /\ Len(AvailableGuilds) > 1
         /\ \A t \in OpenOfUser(dm'[k].author) :
              tickets[t].guild_id \notin AvailableIds )
       => /\ dm'[k].pc = "pending"
          /\ "prompt" \in dm'[k].replies
          /\ "noconfig" \notin dm'[k].replies
  ]_vars

\* C24: isStaffInGuild answers true or false, never with a rejection, and
\* answers false when the guild is not available to the bot, when the member
\* fetch fails or the user is not a member, and when the configuration lookup
\* fails.
C24_RoleResolutionDenies ==
  \A r \in Reqs :
    (req[r].kind = "role" /\ req[r].pc = "done")
    => /\ req[r].result \in {"true", "false"}
       /\ ( \/ req[r].guild \notin BotGuilds
            \/ req[r].failed \in {"nomember", "nofind"}
            \/ ~IsMember(req[r].guild, req[r].actor) )
          => req[r].result = "false"

\* An administrator of a guild of the bot was denied because the
\* configuration lookup failed.
C24_Witness ==
  \E r \in Reqs :
    /\ req[r].kind = "role" /\ req[r].pc = "done"
    /\ req[r].failed = "nofind"
    /\ req[r].guild \in BotGuilds
    /\ req[r].actor \in Admins(req[r].guild)
    /\ req[r].result = "false"

\* The role a configured destination asks its staff for.
RoleAskedIn(g) ==
  IF ConfiguredRole(g) # None THEN ConfiguredRole(g) ELSE EnvStaffRole

\* C25: with every lookup succeeding, a member of a configured destination
\* who is not an administrator passes isStaffInGuild exactly if the member
\* holds the destination's staff role (the process-wide one where the
\* destination has none), and GET /api/tickets and the classification of
\* GET /dashboard decide as isStaffInGuild does.
C25_StaffRoleDecision ==
  \A r \in Reqs :
    (req[r].pc = "done" /\ req[r].failed = "ok")
    => /\ ( /\ req[r].kind = "role"
            /\ RowOf(req[r].guild) # 0
            /\ IsMember(req[r].guild, req[r].actor)
            /\ req[r].actor \notin Admins(req[r].guild) )
          => ( req[r].result = "true"
               <=> RoleAskedIn(req[r].guild)
                     \in RolesOf(req[r].guild, req[r].actor) )
       /\ (req[r].kind = "list" /\ RowOf(req[r].guild) # 0)
          => ( req[r].result = "200"
               <=> IsStaffInGuild(req[r].guild, req[r].actor) )
       /\ req[r].kind = "dash"
          => \A g \in Classified("ok") :
               g \in req[r].staff \cup req[r].admin
               <=> IsStaffInGuild(g, req[r].actor)

\* Whether x is the user of ticket t or passes isStaffInGuild for the
\* ticket's destination.
OwnerOrStaff(t, x) ==
  \/ tickets[t].user_id = x
  \/ IsStaffInGuild(tickets[t].guild_id, x)

\* C26: GET /ticket/:id shows a ticket and its messages only to the ticket's
\* own user and to the staff and administrators of the ticket's destination;
\* anybody else is answered 403 and shown nothing.
C26_PerDestinationReads ==
  \A r \in Reqs :
    (req[r].kind = "view" /\ req[r].pc = "done" /\ Live(req[r].ticket))
    => /\ req[r].shown \in {0, req[r].ticket}
       /\ (req[r].shown # 0 \/ req[r].result = "200")
          => OwnerOrStaff(req[r].ticket, req[r].actor)
       /\ ~OwnerOrStaff(req[r].ticket, req[r].actor)
          => (req[r].result = "403" /\ req[r].shown = 0)

\* One ticket page was shown to a staff member of the destination and
\* refused to a staff member of the other destination.
C26_Witness ==
  \E t \in TicketIds, r1, r2 \in Reqs :
    /\ req[r1].kind = "view" /\ req[r1].ticket = t
    /\ req[r1].actor \in Staff /\ req[r1].result = "200"
    /\ req[r1].shown = t
    /\ req[r2].kind = "view" /\ req[r2].ticket = t
    /\ req[r2].actor \in Staff /\ req[r2].result = "403"
    /\ ~IsMember(tickets[t].guild_id, req[r2].actor)

\* A text with a character that is not a space.
HasVisibleText(text) == \E i \in DOMAIN text : text[i] # " "

\* C27: a note request with an empty or whitespace-only text gets no further
\* than its rejection, and no note request writes before its save; the save
\* of an accepted request puts exactly one note, with the requester as author
\* and the text of the request, behind the notes the ticket has, and leaves
\* every other field and every other ticket as it is.
C27_AddNote ==
  [][\A r \in Reqs :
       /\ (req[r].pc = "idle" /\ req'[r].kind = "dnote")
          => /\ tickets' = tickets
             /\ req'[r].pc = "save" => HasVisibleText(req'[r].text)
             /\ req'[r].pc # "save" => req'[r].result \in {"403", "400", "404"}
       /\ ( /\ req[r].kind = "dnote" /\ req[r].pc = "save"
            /\ req'[r].pc = "done" /\ req'[r].result = "ok" )
          => LET t == req[r].ticket IN
             /\ tickets'[t].notes =
                  Append(tickets[t].notes,
                         [ user_id |-> req[r].actor, content |-> req[r].text ])
             /\ tickets' = [ tickets EXCEPT ![t].notes = tickets'[t].notes ]
  ]_vars

\* A ticket with two notes in the order of their saves, the second one
\* of another author.
C27_Witness ==
  \E t \in TicketIds, r1, r2 \in Reqs :
    /\ Live(t)
    /\ Len(tickets[t].notes) = 2
    /\ tickets[t].notes[1].user_id # tickets[t].notes[2].user_id
    /\ req[r1].kind = "dnote" /\ req[r1].result = "ok"
    /\ req[r2].kind = "dnote" /\ req[r2].result = "ok"
    /\ r1 # r2

\* C28: the Message rows of one ticket and one direction stand in the order
\* in which their messages arrived (tasks and requests start in the order of
\* their numbers, a row holds the number of its message as content, and a
\* direct message is sent into the channel in the step that saves its row).
C28_PerDirectionOrdering ==
  \A i, j \in DOMAIN messages :
    ( /\ i < j
      /\ messages[i].ticket_id = messages[j].ticket_id
      /\ messages[i].is_staff = messages[j].is_staff )
    => messages[i].content < messages[j].content

\* C29: no step saves a Message row for a ticket that is closed when the
\* step is taken, and no step binds a closed ticket to another channel.
C29_NoRelayIntoClosed ==
  [][/\ Len(messages') > Len(messages)
        => LET t == messages'[Len(messages')].ticket_id IN
           ~(Live(t) /\ tickets[t].status = "closed")
     /\ \A t \in TicketIds :
          (Live(t) /\ tickets[t].status = "closed")
          => tickets'[t].channel_id = tickets[t].channel_id
  ]_vars

\* C30: a step in which handleDM finds the channel of its open ticket gone and
\* relays into a channel made in its place leaves the Ticket rows as many as
\* they were, and the author with the same open tickets.
C30_RecreationAddsNoTicket ==
  [][\A k \in DMs :
       ( /\ dm[k].pc = "fetch"
         /\ IsOpen(dm[k].ticket)
         /\ ~ChannelLive(dm[k].tchan)
         /\ dm'[k].pc = "done"
         /\ dm'[k].sent # 0 )
       => /\ Len(tickets') = Len(tickets)
          /\ { t \in DOMAIN tickets' :
                 /\ tickets'[t].exists
                 /\ tickets'[t].status = "open"
                 /\ tickets'[t].user_id = dm[k].author }
             = OpenOfUser(dm[k].author)
  ]_vars

\* C31: no two open tickets have the same channel_id.
C31_UniqueChannelAmongOpen ==
  \A t1, t2 \in TicketIds :
    (IsOpen(t1) /\ IsOpen(t2) /\ t1 # t2)
    => tickets[t1].channel_id # tickets[t2].channel_id

\* No user has two open tickets in one destination.
OneOpenPerDestination ==
  \A t1, t2 \in TicketIds :
    ( /\ IsOpen(t1) /\ IsOpen(t2) /\ t1 # t2
      /\ tickets[t1].user_id = tickets[t2].user_id )
    => tickets[t1].guild_id # tickets[t2].guild_id

\* C32: where no user has two open tickets in one destination, a Close or
\* Claim button pressed in the channel c of a ticket goes on with a ticket
\* whose channel_id is c.
C32_ButtonActsOnChannelTicket ==
  [][\A r \in Reqs :
       ( /\ OneOpenPerDestination
         /\ \E t \in TicketIds :
              Live(t) /\ tickets[t].channel_id = req'[r].chan
         /\ req[r].pc = "idle"
         /\ req'[r].kind \in {"cclose", "cclaim"}
         /\ req'[r].pc = "save" )
       => tickets[req'[r].ticket].channel_id = req'[r].chan
  ]_vars

\* C33: the ticket handleDM creates for the resolved destination has that
\* destination as guild_id.
C33_StoredUnderRoutedDestination ==
  [][\A k \in DMs :
       (dm[k].pc = "create" /\ dm'[k].pc = "fetch")
       => tickets'[dm'[k].ticket].guild_id = dm[k].gcfg
  ]_vars

\* C34: the channel handleDM makes in place of the missing channel of its
\* open ticket, and relays into, is a channel of the ticket's guild.
C34_ReplacementInOwnDestination ==
  [][\A k \in DMs :
       ( /\ dm[k].pc = "fetch"
         /\ IsOpen(dm[k].ticket)
         /\ ~ChannelLive(dm[k].tchan)
         /\ dm'[k].sent # 0 )
       => channels'[dm'[k].sent].guild = tickets[dm[k].ticket].guild_id
  ]_vars

\* C35: after createTicket has finished, every live channel is the channel_id
\* of a Ticket row.
C35_NoOrphanChannel ==
  \A c \in DOMAIN channels :
    channels[c].live
    => \E t \in TicketIds : Live(t) /\ tickets[t].channel_id = c

\* The chat-side close of request r has saved its ticket as closed.
ChatClosed(r) ==
  /\ req[r].kind = "cclose"
  /\ req[r].pc = "timer" \/ req[r].result \in {"ok", "logfail"}

\* The channel deletion of request r has been attempted.
DeletionAttempted(r) == req[r].kind = "cclose" /\ req[r].result = "ok"

\* The steps of a chat-side close: the channel goes in the step of the timer
\* only, after the save, and that step leaves the tickets as they are.
ChatCloseOrder ==
  [][\A r \in Reqs :
       /\ (req[r].pc = "timer" /\ req'[r].pc = "done")
          => /\ ~IsOpen(req[r].ticket)
             /\ tickets' = tickets
       /\ (req[r].kind = "cclose" /\ req[r].pc = "save" /\ req'[r].pc # "save")
          => channels' = channels
    ]_vars

\* C36: a chat-side close deletes the channel only in the step of its timer,
\* when its ticket is saved as closed (or gone), that step leaves the tickets
\* as they are whether the deletion succeeds or not, and every chat-side
\* close that has saved its ticket as closed gets to attempt the deletion.
C36_ChatCloseOrdering ==
  /\ ChatCloseOrder
  /\ \A r \in Reqs : ChatClosed(r) ~> DeletionAttempted(r)

\* No live channel is the channel of an open ticket.
NoChannelHasOpenTicket ==
  \A c \in DOMAIN channels, t \in TicketIds :
    ChannelLive(c) => ~(IsOpen(t) /\ tickets[t].channel_id = c)

WindowOpenBeside(k) ==
  \E j \in DMs \ {k} : dm[j].pc = "pending" /\ dm[j].author # dm[k].author

WindowOpen == \E j \in DMs : dm[j].pc = "pending"

\* C38: while the window of one user's message is open, the message of
\* another user that is being handled, and a staff message that is being
\* handled, get to their end whether or not that window ever closes.
C38_WindowBlocksOnlyItsMessage ==
  /\ \A k \in DMs :
       (dm[k].pc \in {"lookup", "create", "fetch"} /\ WindowOpenBeside(k))
         ~> dm[k].pc = "done"
  /\ \A r \in Reqs :
       (req[r].kind = "smsg" /\ req[r].pc \in {"send", "record"} /\ WindowOpen)
         ~> req[r].pc = "done"

\* The window of one message is open while the message of another user has
\* been relayed and stored with its ticket and a staff message to that user
\* has been delivered and stored.
C38_Witness ==
  \E j, k \in DMs, r \in Reqs :
    /\ dm[j].pc = "pending"
    /\ dm[k].pc = "done"
    /\ dm[k].author # dm[j].author
    /\ dm[k].replies \cap {"prompt", "created"} # {}
    /\ \E i \in DOMAIN messages :
         messages[i] = UserMessage(dm[k], k) /\ IsOpen(dm[k].ticket)
    /\ req[r].kind = "smsg" /\ req[r].result = "ok"
    /\ \E i \in DOMAIN messages :
         messages[i].is_staff /\ messages[i].content = r
           /\ messages[i].ticket_id = dm[k].ticket

\* C39: a ticket row has status closed exactly when closed_at and closed_by
\* are set, and claimed_at is set exactly when claimed_by is.
C39_ClosureFieldsMatchStatus ==
  \A t \in TicketIds :
    Live(t) =>
      /\ tickets[t].status = "closed"
           <=> (tickets[t].closed_at # 0 /\ tickets[t].closed_by # None)
      /\ tickets[t].status = "open"
           <=> (tickets[t].closed_at = 0 /\ tickets[t].closed_by = None)
      /\ tickets[t].claimed_at # 0 <=> tickets[t].claimed_by # None

\* A ticket closed by one member and claimed by another, next to a ticket
\* that is open and unclaimed.
C39_Witness ==
  \E t1, t2 \in TicketIds :
    /\ Live(t1) /\ tickets[t1].status = "closed"
    /\ tickets[t1].claimed_by \notin {None, tickets[t1].closed_by}
    /\ IsOpen(t2) /\ tickets[t2].claimed_by = None

====
